---- MODULE Spec2Model ----
(***************************************************************************)
(* Location Explorer: the App component (src/App.tsx) and the grounding    *)
(* client getPlaceInfo (src/unnamed/part_000, services/geminiService).     *)
(*                                                                         *)
(* JavaScript strings are TLA+ strings; a value that may be null or        *)
(* undefined is a sequence of length 0 (absent) or 1 (present).            *)
(***************************************************************************)
EXTENDS Integers, Sequences, FiniteSets, TLC

VARIABLES
    mounted,                        \* the mount effect of App has run
    geolocation,                    \* navigator.geolocation and its one-shot request
    userLocation,                   \* useState<LatLng | null>
    actualUserLocationDetermined,   \* useState<boolean>
    searchContext,                  \* useState<'kottayam' | 'currentLocation'>
    prompt,                         \* useState<string>
    filterCategory,                 \* useState<string>
    generalSummary,                 \* useState<string | undefined>
    responseUrls,                   \* useState<MapsGroundingResult['urls']>
    loading,                        \* useState<boolean>
    error,                          \* useState<string | null>
    inflight,                       \* pending getPlaceInfo calls (awaited promises)
    apiCalls,                       \* generateContent calls made for the last search trigger
    lastEvent,                      \* the handler or callback that ran last
    response,                       \* getPlaceInfo: the GenerateContentResponse
    urls,                           \* getPlaceInfo: the local candidate list `urls`
    result                          \* getPlaceInfo: the returned MapsGroundingResult

appVars == <<mounted, geolocation, userLocation, actualUserLocationDetermined,
             searchContext, prompt, filterCategory, generalSummary, responseUrls,
             loading, error, inflight, apiCalls, lastEvent>>

clientVars == <<response, urls, result>>

vars == <<mounted, geolocation, userLocation, actualUserLocationDetermined,
          searchContext, prompt, filterCategory, generalSummary, responseUrls,
          loading, error, inflight, apiCalls, lastEvent, response, urls, result>>

----------------------------------------------------------------------------
(* Optional values *)

Null == <<>>

Some(v) == <<v>>

Opt(S) == {Null} \cup {Some(v) : v \in S}

----------------------------------------------------------------------------
(* Strings *)

Whitespace == {" ", "\n", "\t"}

CharAt(s, i) == SubSeq(s, i, i)

RECURSIVE TrimStart(_)
TrimStart(s) ==
    IF Len(s) > 0 /\ CharAt(s, 1) \in Whitespace
    THEN TrimStart(SubSeq(s, 2, Len(s)))
    ELSE s

RECURSIVE TrimEnd(_)
TrimEnd(s) ==
    IF Len(s) > 0 /\ CharAt(s, Len(s)) \in Whitespace
    THEN TrimEnd(SubSeq(s, 1, Len(s) - 1))
    ELSE s

\* String.prototype.trim
Trim(s) == TrimEnd(TrimStart(s))

UpperCaseLetters == "ABCDEFGHIJKLMNOPQRSTUVWXYZ"

LowerCaseLetters == "abcdefghijklmnopqrstuvwxyz"

LowerChar(c) ==
    IF \E i \in 1..26 : CharAt(UpperCaseLetters, i) = c
    THEN CharAt(LowerCaseLetters, CHOOSE i \in 1..26 : CharAt(UpperCaseLetters, i) = c)
    ELSE c

RECURSIVE ToLowerCase(_)
\* String.prototype.toLowerCase
ToLowerCase(s) ==
    IF Len(s) = 0 THEN s
    ELSE IF Len(s) = 1 THEN LowerChar(s)
    ELSE ToLowerCase(SubSeq(s, 1, Len(s) \div 2))
         \o ToLowerCase(SubSeq(s, Len(s) \div 2 + 1, Len(s)))

----------------------------------------------------------------------------
(* App: constants of the component *)

defaultKottayamCoords == [latitude |-> 95916, longitude |-> 765050]

filterOptions ==
    << [value |-> "all",             label |-> "All Categories"],
       [value |-> "companies_shops", label |-> "Companies & Shops"],
       [value |-> "restaurants",     label |-> "Restaurants"],
       [value |-> "attractions",     label |-> "Attractions & Landmarks"],
       [value |-> "hotels",          label |-> "Hotels & Accommodations"],
       [value |-> "services",        label |-> "Services (e.g., banks, hospitals)"] >>

FilterValues == {filterOptions[i].value : i \in 1..Len(filterOptions)}

\* filterOptions.find(opt => opt.value === filterCategory)?.label
FilterLabel(category) ==
    IF \E i \in 1..Len(filterOptions) : filterOptions[i].value = category
    THEN Some(filterOptions[CHOOSE i \in 1..Len(filterOptions) :
                                /\ filterOptions[i].value = category
                                /\ \A j \in 1..(i - 1) : filterOptions[j].value # category].label)
    ELSE Null

SearchContexts == {"kottayam", "currentLocation"}

----------------------------------------------------------------------------
(* App: the query composed by handleSearch *)

BaseInstruction ==
    "You are a helpful assistant providing local information. Provide a detailed overview of places based on the user's request.\n"
    \o "    For each place, include its name, comprehensive address, a detailed description, and its category (e.g., Restaurant, Shop, Landmark). If available, also include a website.\n"
    \o "    Always prioritize comprehensive details for each listed place.\n"
    \o "    "

GenericCategoryClause ==
    " Include various types of places such as companies, shops, restaurants, attractions, and services."

CurrentAreaName(context) ==
    IF context = "kottayam" THEN "Kottayam city" ELSE "this area near my current location"

\* `${filterLabel?.toLowerCase()}` inside a template literal
FilterLabelText(category) ==
    IF FilterLabel(category) = Null THEN "undefined"
    ELSE ToLowerCase(FilterLabel(category)[1])

\* the free text appended as typed
UserTextClauseUntrimmed(text) ==
    IF Trim(text) # ""
    THEN "The user is looking for: \"" \o text \o "\"."
    ELSE ""

UserTextClause(text) ==
    IF Trim(text) # ""
    THEN "The user is looking for: \"" \o Trim(text) \o "\"."
    ELSE ""

\* the generic clause appended after the category clause as well
CategoryClauseThenGeneric(category) ==
    IF category # "all"
    THEN " Specifically focus on results in the \"" \o FilterLabelText(category) \o "\" category."
         \o GenericCategoryClause
    ELSE GenericCategoryClause

CategoryClause(category) ==
    IF category # "all"
    THEN " Specifically focus on results in the \"" \o FilterLabelText(category) \o "\" category."
    ELSE GenericCategoryClause

EffectiveQuery(context, category, text) ==
    BaseInstruction
    \o UserTextClause(text)
    \o CategoryClause(category)
    \o " Provide details for places in " \o CurrentAreaName(context) \o "."


----------------------------------------------------------------------------
(* App: messages shown in the error banner *)

PERMISSION_DENIED == 1

POSITION_UNAVAILABLE == 2

TIMEOUT == 3

\* GeolocationPositionError.code: the three named codes and one other value
GeoErrorCodes == {0, PERMISSION_DENIED, POSITION_UNAVAILABLE, TIMEOUT}

GeoErrorMessage(code) ==
    (IF code = PERMISSION_DENIED THEN "Permission denied."
     ELSE IF code = POSITION_UNAVAILABLE THEN "Position unavailable."
     ELSE IF code = TIMEOUT THEN "Request timed out."
     ELSE "Geolocation failed (Code: " \o ToString(code) \o "):")
    \o " You can still search for \"Kottayam City\". To search \"Near My Current Location\", please grant geolocation permission or ensure location services are enabled."

GeoUnsupportedMessage ==
    "Geolocation is not supported by your browser. You can only search for 'Kottayam City'."

LocationUndeterminedMessage ==
    "Your current location could not be determined. Please select 'Kottayam City' or enable geolocation."

NoTargetMessage == "Unable to determine search location. Please try again."

FetchErrorMessage(locationDescription, message) ==
    "Error fetching data for " \o locationDescription \o ": " \o message

----------------------------------------------------------------------------
(* Grounding client: the shape of a GenerateContentResponse *)

MaxLinks == 3

MaxAppLinks == 1

Uris == {"https://maps.google.com/?cid=1", "https://maps.google.com/?cid=2"}

Titles == {"Cafe One", "Cafe Two"}

Texts == {"  ## Places\n* Cafe One \n"}

\* a review snippet; its uri may be missing
Snippets == [uri : Opt(Uris)]

\* a place answer source holding n - 1 review snippets, or none when n = 1
SourcesOfSize(n) ==
    (IF n = 1 THEN {[reviewSnippets |-> Null]} ELSE {})
    \cup {[reviewSnippets |-> Some(q)] : q \in [1..(n - 1) -> Snippets]}

RECURSIVE SourceSeqsFrom(_, _)
\* the lists of place answer sources with n sources and snippets in all, the
\* first source of size k at most
SourceSeqsFrom(n, k) ==
    IF n = 0 THEN {<<>>}
    ELSE IF k = 0 THEN {}
    ELSE SourceSeqsFrom(n, k - 1)
         \cup {<<src>> \o rest : src \in SourcesOfSize(k), rest \in SourceSeqsFrom(n - k, n - k)}

SourceSeqs(n) == SourceSeqsFrom(n, n)

\* a grounding chunk with n - 1 sources and snippets below it
ChunksOfSize(n) ==
    (IF n = 1
     THEN {[maps |-> Null]}
          \cup {[maps |-> Some([uri |-> u, title |-> t, placeAnswerSources |-> Null])] :
                   u \in Opt(Uris), t \in Opt(Titles)}
     ELSE {})
    \cup {[maps |-> Some([uri |-> u, title |-> t, placeAnswerSources |-> Some(q)])] :
             u \in Opt(Uris), t \in Opt(Titles), q \in SourceSeqs(n - 1)}

RECURSIVE ChunkSeqsFrom(_, _)
\* the chunk lists with at most n chunks, sources and snippets in all, the first
\* chunk of size k at most
ChunkSeqsFrom(n, k) ==
    IF k = 0 THEN {<<>>}
    ELSE ChunkSeqsFrom(n, k - 1)
         \cup {<<c>> \o rest : c \in ChunksOfSize(k), rest \in ChunkSeqsFrom(n - k, n - k)}

ChunkSeqs(n) == ChunkSeqsFrom(n, n)

\* response.candidates?.[0]?.groundingMetadata?.groundingChunks: each level may be missing
Candidates(n) ==
    {<<>>, <<[groundingMetadata |-> Null]>>,
     <<[groundingMetadata |-> Some([groundingChunks |-> Null])]>>}
    \cup {<<[groundingMetadata |-> Some([groundingChunks |-> Some(cs)])]>> : cs \in ChunkSeqs(n)}

Responses(n) == [text : Opt(Texts), candidates : Candidates(n)]

----------------------------------------------------------------------------
(* Grounding client: getPlaceInfo *)

DefaultPrompt ==
    "List key points of interest, famous landmarks, popular restaurants, and other notable locations in this area. Include details like address and a brief description for each. Provide comprehensive details."

GenericFetchError == "Failed to fetch information. Please check your network and try again."

\* query.trim() || default prompt
ClientQuery(query) == IF Trim(query) # "" THEN Trim(query) ELSE DefaultPrompt

\* the chunk list reached through the optional chain, absent when a level is missing
GroundingChunks(resp) ==
    IF Len(resp.candidates) = 0 THEN Null
    ELSE IF resp.candidates[1].groundingMetadata = Null THEN Null
    ELSE resp.candidates[1].groundingMetadata[1].groundingChunks

RECURSIVE SnippetUrls(_)
SnippetUrls(snippets) ==
    IF Len(snippets) = 0 THEN <<>>
    ELSE (IF Head(snippets).uri # Null
          THEN <<[uri |-> Head(snippets).uri[1], title |-> Null]>>
          ELSE <<>>)
         \o SnippetUrls(Tail(snippets))

RECURSIVE SourceUrls(_)
SourceUrls(sources) ==
    IF Len(sources) = 0 THEN <<>>
    ELSE (IF Head(sources).reviewSnippets # Null
          THEN SnippetUrls(Head(sources).reviewSnippets[1])
          ELSE <<>>)
         \o SourceUrls(Tail(sources))

ChunkUrls(chunk) ==
    IF chunk.maps = Null THEN <<>>
    ELSE LET maps == chunk.maps[1]
         IN  (IF maps.uri # Null
              THEN <<[uri |-> maps.uri[1], title |-> maps.title]>>
              ELSE <<>>)
             \o (IF maps.placeAnswerSources # Null
                 THEN SourceUrls(maps.placeAnswerSources[1])
                 ELSE <<>>)

RECURSIVE ChunkListUrls(_)
ChunkListUrls(chunks) ==
    IF Len(chunks) = 0 THEN <<>>
    ELSE ChunkUrls(Head(chunks)) \o ChunkListUrls(Tail(chunks))

\* the candidate list `urls` after the extraction loop
CollectUrls(resp) ==
    IF GroundingChunks(resp) = Null THEN <<>>
    ELSE ChunkListUrls(GroundingChunks(resp)[1])

\* Map.prototype.set on the entries in insertion order: an existing key keeps
\* its position and takes the new value
MapSet(entries, item) ==
    IF \E i \in 1..Len(entries) : entries[i].uri = item.uri
    THEN [i \in 1..Len(entries) |-> IF entries[i].uri = item.uri THEN item ELSE entries[i]]
    ELSE Append(entries, item)

RECURSIVE MapOf(_, _)
\* new Map(items.map((item) => [item.uri, item])), continued from entries
MapOf(entries, items) ==
    IF Len(items) = 0 THEN entries
    ELSE MapOf(MapSet(entries, Head(items)), Tail(items))

RECURSIVE MapOfReinserting(_, _)
\* a map that moves a repeated key to the end
MapOfReinserting(entries, items) ==
    IF Len(items) = 0 THEN entries
    ELSE MapOfReinserting(
             Append(SelectSeq(entries, LAMBDA e : e.uri # Head(items).uri), Head(items)),
             Tail(items))

UniqueUrlsReinserting(items) == MapOfReinserting(<<>>, items)

\* Array.from(new Map(...).values())
UniqueUrls(items) == MapOf(<<>>, items)

\* the summary taken without trim()
SummaryUntrimmed(resp) == resp.text[1]

\* response.text.trim()
Summary(resp) == Trim(resp.text[1])

\* a catch block that rethrows the error it caught
GetPlaceInfoRethrowing(outcome) ==
    IF outcome.ok /\ outcome.response.text # Null
    THEN [ok |-> TRUE,
          value |-> [summary |-> Summary(outcome.response),
                     places |-> <<>>,
                     urls |-> UniqueUrls(CollectUrls(outcome.response))]]
    ELSE [ok |-> FALSE,
          message |-> IF outcome.ok
                      THEN "Cannot read properties of undefined (reading 'trim')"
                      ELSE outcome.message]

\* what the awaited getPlaceInfo settles with, given what generateContent settled with
GetPlaceInfo(outcome) ==
    IF outcome.ok /\ outcome.response.text # Null
    THEN [ok |-> TRUE,
          value |-> [summary |-> Summary(outcome.response),
                     places |-> <<>>,
                     urls |-> UniqueUrls(CollectUrls(outcome.response))]]
    ELSE [ok |-> FALSE, message |-> GenericFetchError]

----------------------------------------------------------------------------
(* Environment: what the user can type, where the device can be, how the   *)
(* API call can fail                                                       *)

MaxPromptWords == 2

\* cap on the getPlaceInfo calls pending at once
MaxInflight == 2

PromptWords == {" ", "various types of places"}

RECURSIVE Concat(_)
Concat(words) == IF Len(words) = 0 THEN "" ELSE Head(words) \o Concat(Tail(words))

\* the values of the free-text box: up to MaxPromptWords pieces typed one after another
PromptInputs == {Concat(ws) : ws \in UNION {[1..k -> PromptWords] : k \in 0..MaxPromptWords}}

\* positions the device can report, the city centre among them
DevicePositions == {[latitude |-> 84875, longitude |-> 769525], defaultKottayamCoords}

\* messages of the errors generateContent can reject with
ApiErrors == {"fetch failed", "429 RESOURCE_EXHAUSTED"}

\* how the generateContent promise can settle
ApiOutcomes(n) ==
    {[ok |-> TRUE, response |-> r] : r \in Responses(n)}
    \cup {[ok |-> FALSE, message |-> e] : e \in ApiErrors}

----------------------------------------------------------------------------
(* App: the component *)

\* a current-location radio that is never disabled for lack of a coordinate
isCurrentLocationSearchDisabledNever == FALSE

isCurrentLocationSearchDisabled == ~actualUserLocationDetermined

\* a search button that stays enabled while a request is pending
SearchButtonDisabledLoadingUnread ==
    searchContext = "currentLocation" /\ ~actualUserLocationDetermined

\* disabled attribute of the search button
SearchButtonDisabled ==
    loading \/ (searchContext = "currentLocation" /\ ~actualUserLocationDetermined)

\* useState initial values, before the mount effect
InitApp ==
    /\ mounted = FALSE
    /\ geolocation \in {"supported", "unsupported"}
    /\ userLocation = Null
    /\ actualUserLocationDetermined = FALSE
    /\ searchContext = "kottayam"
    /\ prompt = ""
    /\ filterCategory = "all"
    /\ generalSummary = Null
    /\ responseUrls = <<>>
    /\ loading = FALSE
    /\ error = Null
    /\ inflight = <<>>
    /\ apiCalls = 0
    /\ lastEvent = "render"

InitClient ==
    /\ response = Null
    /\ urls = Null
    /\ result = Null

Init == InitApp /\ InitClient

\* a mount effect whose no-geolocation branch stores no fallback coordinate
MountWithoutFallback ==
    /\ ~mounted
    /\ mounted' = TRUE
    /\ lastEvent' = "mount"
    /\ IF geolocation = "supported"
       THEN /\ geolocation' = "pending"
            /\ UNCHANGED <<userLocation, actualUserLocationDetermined, searchContext, error>>
       ELSE /\ error' = Some(GeoUnsupportedMessage)
            /\ UNCHANGED <<userLocation, actualUserLocationDetermined, searchContext,
                           geolocation>>
    /\ UNCHANGED <<prompt, filterCategory, generalSummary, responseUrls, loading,
                   inflight, apiCalls>>
    /\ UNCHANGED clientVars

\* useEffect(() => {...}, [])
Mount ==
    /\ ~mounted
    /\ mounted' = TRUE
    /\ lastEvent' = "mount"
    /\ IF geolocation = "supported"
       THEN /\ geolocation' = "pending"
            /\ UNCHANGED <<userLocation, actualUserLocationDetermined, searchContext, error>>
       ELSE /\ error' = Some(GeoUnsupportedMessage)
            /\ userLocation' = Some(defaultKottayamCoords)
            /\ actualUserLocationDetermined' = FALSE
            /\ searchContext' = "kottayam"
            /\ UNCHANGED geolocation
    /\ UNCHANGED <<prompt, filterCategory, generalSummary, responseUrls, loading,
                   inflight, apiCalls>>
    /\ UNCHANGED clientVars

\* success callback of getCurrentPosition
GeolocationSuccess(coords) ==
    /\ geolocation = "pending"
    /\ geolocation' = "success"
    /\ userLocation' = Some(coords)
    /\ actualUserLocationDetermined' = TRUE
    /\ error' = Null
    /\ lastEvent' = "geolocationSuccess"
    /\ UNCHANGED <<mounted, searchContext, prompt, filterCategory, generalSummary,
                   responseUrls, loading, inflight, apiCalls>>
    /\ UNCHANGED clientVars

\* an error callback that marks the coordinate as determined
GeolocationErrorMarkingDetermined(code) ==
    /\ geolocation = "pending"
    /\ geolocation' = "failed"
    /\ error' = Some(GeoErrorMessage(code))
    /\ userLocation' = Some(defaultKottayamCoords)
    /\ actualUserLocationDetermined' = TRUE
    /\ lastEvent' = "geolocationError"
    /\ UNCHANGED <<mounted, searchContext, prompt, filterCategory, generalSummary,
                   responseUrls, loading, inflight, apiCalls>>
    /\ UNCHANGED clientVars

\* error callback of getCurrentPosition
GeolocationError(code) ==
    /\ geolocation = "pending"
    /\ geolocation' = "failed"
    /\ error' = Some(GeoErrorMessage(code))
    /\ userLocation' = Some(defaultKottayamCoords)
    /\ actualUserLocationDetermined' = FALSE
    /\ lastEvent' = "geolocationError"
    /\ UNCHANGED <<mounted, searchContext, prompt, filterCategory, generalSummary,
                   responseUrls, loading, inflight, apiCalls>>
    /\ UNCHANGED clientVars

\* onChange of the two location radios
SetSearchContext(context) ==
    /\ mounted
    /\ ~loading
    /\ context = "currentLocation" => ~isCurrentLocationSearchDisabled
    /\ context # searchContext
    /\ searchContext' = context
    /\ lastEvent' = "setSearchContext"
    /\ UNCHANGED <<mounted, geolocation, userLocation, actualUserLocationDetermined,
                   prompt, filterCategory, generalSummary, responseUrls, loading, error,
                   inflight, apiCalls>>
    /\ UNCHANGED clientVars

\* onChange of the category radios
SetFilterCategory(category) ==
    /\ mounted
    /\ ~loading
    /\ category # filterCategory
    /\ filterCategory' = category
    /\ lastEvent' = "setFilterCategory"
    /\ UNCHANGED <<mounted, geolocation, userLocation, actualUserLocationDetermined,
                   searchContext, prompt, generalSummary, responseUrls, loading, error,
                   inflight, apiCalls>>
    /\ UNCHANGED clientVars

\* onChange of the textarea
SetPrompt(text) ==
    /\ mounted
    /\ ~loading
    /\ text # prompt
    /\ prompt' = text
    /\ lastEvent' = "setPrompt"
    /\ UNCHANGED <<mounted, geolocation, userLocation, actualUserLocationDetermined,
                   searchContext, filterCategory, generalSummary, responseUrls, loading,
                   error, inflight, apiCalls>>
    /\ UNCHANGED clientVars

\* handleSearch taking the device coordinate whenever one was determined
TargetCoordsPreferringDevice ==
    IF actualUserLocationDetermined /\ userLocation # Null THEN userLocation
    ELSE IF searchContext = "kottayam" THEN Some(defaultKottayamCoords)
    ELSE Null

\* handleSearch taking any stored coordinate, the determined flag unread
TargetCoordsFlagUnread ==
    IF searchContext = "kottayam" THEN Some(defaultKottayamCoords)
    ELSE IF userLocation # Null THEN userLocation
    ELSE Null

\* targetCoords after the branch on searchContext; absent on the refusal path
TargetCoords ==
    IF searchContext = "kottayam" THEN Some(defaultKottayamCoords)
    ELSE IF actualUserLocationDetermined /\ userLocation # Null THEN userLocation
    ELSE Null

LocationDescription ==
    IF searchContext = "kottayam" THEN "Kottayam city" ELSE "your current location"

\* handleSearch without setError(null) in its reset
HandleSearchKeepingError ==
    /\ Len(inflight) < MaxInflight
    /\ lastEvent' = "handleSearch"
    /\ IF TargetCoords = Null
       THEN /\ error' = Some(IF searchContext = "currentLocation"
                             THEN LocationUndeterminedMessage
                             ELSE NoTargetMessage)
            /\ UNCHANGED <<loading, generalSummary, responseUrls, inflight, apiCalls>>
       ELSE /\ loading' = TRUE
            /\ UNCHANGED error
            /\ generalSummary' = Null
            /\ responseUrls' = <<>>
            /\ inflight' = Append(inflight,
                   [targetLatLng |-> TargetCoords[1],
                    query |-> EffectiveQuery(searchContext, filterCategory, prompt),
                    contents |-> ClientQuery(EffectiveQuery(searchContext, filterCategory, prompt)),
                    locationDescription |-> LocationDescription])
            /\ apiCalls' = 1
    /\ UNCHANGED <<mounted, geolocation, userLocation, actualUserLocationDetermined,
                   searchContext, prompt, filterCategory>>
    /\ UNCHANGED clientVars

\* handleSearch up to its await: the refusal, or the reset and the getPlaceInfo call
HandleSearch ==
    /\ Len(inflight) < MaxInflight
    /\ lastEvent' = "handleSearch"
    /\ IF TargetCoords = Null
       THEN /\ error' = Some(IF searchContext = "currentLocation"
                             THEN LocationUndeterminedMessage
                             ELSE NoTargetMessage)
            /\ UNCHANGED <<loading, generalSummary, responseUrls, inflight, apiCalls>>
       ELSE /\ loading' = TRUE
            /\ error' = Null
            /\ generalSummary' = Null
            /\ responseUrls' = <<>>
            /\ inflight' = Append(inflight,
                   [targetLatLng |-> TargetCoords[1],
                    query |-> EffectiveQuery(searchContext, filterCategory, prompt),
                    contents |-> ClientQuery(EffectiveQuery(searchContext, filterCategory, prompt)),
                    locationDescription |-> LocationDescription])
            /\ apiCalls' = 1
    /\ UNCHANGED <<mounted, geolocation, userLocation, actualUserLocationDetermined,
                   searchContext, prompt, filterCategory>>
    /\ UNCHANGED clientVars

\* onClick of the search button
SearchButtonClick ==
    /\ mounted
    /\ ~SearchButtonDisabled
    /\ HandleSearch

\* the pending calls without the i-th, which has settled
RemoveAt(calls, i) ==
    [j \in 1..(Len(calls) - 1) |-> IF j < i THEN calls[j] ELSE calls[j + 1]]

\* a settlement whose failure path skips the finally block
SettleWithoutFinally(outcome) ==
    \E i \in 1..Len(inflight) :
        /\ inflight' = RemoveAt(inflight, i)
        /\ IF GetPlaceInfo(outcome).ok
           THEN /\ generalSummary' = Some(GetPlaceInfo(outcome).value.summary)
                /\ responseUrls' = GetPlaceInfo(outcome).value.urls
                /\ lastEvent' = "searchDone"
                /\ loading' = FALSE
                /\ UNCHANGED error
           ELSE /\ error' = Some(FetchErrorMessage(inflight[i].locationDescription,
                                                   GetPlaceInfo(outcome).message))
                /\ lastEvent' = "searchFailed"
                /\ UNCHANGED <<generalSummary, responseUrls, loading>>
        /\ UNCHANGED <<mounted, geolocation, userLocation, actualUserLocationDetermined,
                       searchContext, prompt, filterCategory, apiCalls>>
        /\ UNCHANGED clientVars

\* handleSearch after its await: generateContent settles for one pending call,
\* getPlaceInfo returns or throws, then try / catch / finally
Settle(outcome) ==
    \E i \in 1..Len(inflight) :
        /\ inflight' = RemoveAt(inflight, i)
        /\ IF GetPlaceInfo(outcome).ok
           THEN /\ generalSummary' = Some(GetPlaceInfo(outcome).value.summary)
                /\ responseUrls' = GetPlaceInfo(outcome).value.urls
                /\ lastEvent' = "searchDone"
                /\ UNCHANGED error
           ELSE /\ error' = Some(FetchErrorMessage(inflight[i].locationDescription,
                                                   GetPlaceInfo(outcome).message))
                /\ lastEvent' = "searchFailed"
                /\ UNCHANGED <<generalSummary, responseUrls>>
        /\ loading' = FALSE
        /\ UNCHANGED <<mounted, geolocation, userLocation, actualUserLocationDetermined,
                       searchContext, prompt, filterCategory, apiCalls>>
        /\ UNCHANGED clientVars

Next ==
    \/ Mount
    \/ \E coords \in DevicePositions : GeolocationSuccess(coords)
    \/ \E code \in GeoErrorCodes : GeolocationError(code)
    \/ \E context \in SearchContexts : SetSearchContext(context)
    \/ \E category \in FilterValues : SetFilterCategory(category)
    \/ \E text \in PromptInputs : SetPrompt(text)
    \/ SearchButtonClick
    \/ \E outcome \in ApiOutcomes(MaxAppLinks) : Settle(outcome)

Spec == Init /\ [][Next]_vars

\* a pending generateContent promise does not stay pending for ever: unless it
\* settles some other way first, it is rejected, and the continuation then runs
FairSpec ==
    Spec /\ WF_vars(\E e \in ApiErrors : Settle([ok |-> FALSE, message |-> e]))

----------------------------------------------------------------------------
(* handleSearch called on any values of the state it closes over *)

InitHandler ==
    /\ mounted = TRUE
    /\ geolocation = "pending"
    /\ userLocation \in Opt(DevicePositions)
    /\ actualUserLocationDetermined \in BOOLEAN
    /\ searchContext \in SearchContexts
    /\ prompt \in PromptInputs
    /\ filterCategory \in FilterValues
    /\ generalSummary = Null
    /\ responseUrls = <<>>
    /\ loading = FALSE
    /\ error = Null
    /\ inflight = <<>>
    /\ apiCalls = 0
    /\ lastEvent = "render"
    /\ InitClient

NextHandler ==
    \/ HandleSearch
    \/ \E outcome \in ApiOutcomes(0) : Settle(outcome)

SpecHandler == InitHandler /\ [][NextHandler]_vars

----------------------------------------------------------------------------
(* getPlaceInfo applied to any settlement of generateContent *)

InitGetPlaceInfo ==
    /\ InitApp
    /\ geolocation = "supported"
    /\ response \in {Some(o) : o \in ApiOutcomes(MaxLinks)}
    /\ urls = Null
    /\ result = Null

\* lines 83-109: the summary is taken, then the extraction loop fills `urls`
ExtractUrls ==
    /\ result = Null
    /\ urls = Null
    /\ response[1].ok
    /\ response[1].response.text # Null
    /\ urls' = Some(CollectUrls(response[1].response))
    /\ UNCHANGED <<response, result>>
    /\ UNCHANGED appVars

\* lines 110-112: deduplicate and return
Return ==
    /\ result = Null
    /\ urls # Null
    /\ result' = Some(GetPlaceInfo(response[1]))
    /\ UNCHANGED <<response, urls>>
    /\ UNCHANGED appVars

\* lines 113-116: the catch block
Throw ==
    /\ result = Null
    /\ ~(response[1].ok /\ response[1].response.text # Null)
    /\ result' = Some(GetPlaceInfo(response[1]))
    /\ UNCHANGED <<response, urls>>
    /\ UNCHANGED appVars

NextGetPlaceInfo == ExtractUrls \/ Return \/ Throw

SpecGetPlaceInfo == InitGetPlaceInfo /\ [][NextGetPlaceInfo]_vars

----------------------------------------------------------------------------
(* Properties *)

\* t occurs in s
Includes(s, t) ==
    \/ Len(t) = 0
    \/ \E i \in 1..(Len(s) - Len(t) + 1) : SubSeq(s, i, i + Len(t) - 1) = t

\* s is t without its leading and trailing whitespace
IsTrimOf(s, t) ==
    \E i, j \in 0..Len(t) :
        /\ i + j <= Len(t)
        /\ s = SubSeq(t, i + 1, Len(t) - j)
        /\ \A k \in (1..i) \cup ((Len(t) - j + 1)..Len(t)) : CharAt(t, k) \in Whitespace
        /\ Len(s) > 0 => (CharAt(s, 1) \notin Whitespace /\ CharAt(s, Len(s)) \notin Whitespace)

\* position of the first item of items that carries uri
FirstIndex(items, uri) ==
    CHOOSE i \in 1..Len(items) :
        /\ items[i].uri = uri
        /\ \A j \in 1..(i - 1) : items[j].uri # uri

UriSet(items) == {items[i].uri : i \in 1..Len(items)}

GenericPhrase == "various types of places"

\* C1: a search triggered in current-location mode while the device coordinate
\* is not determined is refused: the refusal message is set, loading stays
\* false and no getPlaceInfo call is made.
C1_SearchRefused ==
    (/\ lastEvent = "handleSearch"
     /\ searchContext = "currentLocation"
     /\ (~actualUserLocationDetermined \/ userLocation = Null))
    => /\ error = Some(LocationUndeterminedMessage)
       /\ ~loading
       /\ inflight = <<>>
       /\ apiCalls = 0

C1_Witness ==
    /\ lastEvent = "handleSearch"
    /\ searchContext = "currentLocation"
    /\ ~actualUserLocationDetermined
    /\ userLocation = Some(defaultKottayamCoords)
    /\ error = Some(LocationUndeterminedMessage)

\* C2: at most one getPlaceInfo call is pending; loading is true exactly while
\* one is pending; while loading the search button and every form input are
\* disabled, and no step changes the form state.
C2_SingleRequest ==
    /\ [](/\ Len(inflight) <= 1
          /\ loading <=> inflight # <<>>
          /\ loading =>
                /\ SearchButtonDisabled
                /\ \A context \in SearchContexts : ~ENABLED SetSearchContext(context)
                /\ \A category \in FilterValues : ~ENABLED SetFilterCategory(category)
                /\ \A text \in PromptInputs : ~ENABLED SetPrompt(text))
    /\ [][loading => /\ searchContext' = searchContext
                     /\ filterCategory' = filterCategory
                     /\ prompt' = prompt]_vars

C2_Witness ==
    /\ loading
    /\ Len(inflight) = 1
    /\ lastEvent = "geolocationSuccess"

\* C3: the returned url list holds every distinct uri of the candidate list
\* exactly once, in the order of first occurrence among the candidates.
C3_UniqueInFirstSeenOrder ==
    (result # Null /\ result[1].ok) =>
        LET out == result[1].value.urls
            candidates == urls[1]
        IN  /\ UriSet(out) = UriSet(candidates)
            /\ \A i, j \in 1..Len(out) : i < j =>
                   /\ out[i].uri # out[j].uri
                   /\ FirstIndex(candidates, out[i].uri) < FirstIndex(candidates, out[j].uri)

C3_Witness ==
    /\ result # Null
    /\ result[1].ok
    /\ Len(urls[1]) = 3
    /\ urls[1][1].uri = urls[1][3].uri
    /\ urls[1][2].uri # urls[1][1].uri
    /\ Len(result[1].value.urls) = 2

\* C4: the entry of a uri in the returned url list carries the title of the
\* first candidate with that uri.
C4_FirstSeenTitle ==
    (result # Null /\ result[1].ok) =>
        LET out == result[1].value.urls
            candidates == urls[1]
        IN  \A i \in 1..Len(out) :
                out[i].title = candidates[FirstIndex(candidates, out[i].uri)].title

\* C5: after the geolocation error callback the stored coordinate is the city
\* centre, the coordinate is marked not determined, a geolocation message is
\* shown and the current-location option is disabled; from then on the mode is
\* city centre, the search button works whenever no request is pending, and a
\* search sends a request with the city-centre coordinate.
C5_GeolocationFailure ==
    /\ lastEvent = "geolocationError" =>
          /\ error \in {Some(GeoErrorMessage(code)) : code \in GeoErrorCodes}
          /\ isCurrentLocationSearchDisabled
          /\ ~ENABLED SetSearchContext("currentLocation")
    /\ geolocation = "failed" =>
          /\ userLocation = Some(defaultKottayamCoords)
          /\ ~actualUserLocationDetermined
          /\ searchContext = "kottayam"
          /\ ~loading => ~SearchButtonDisabled
          /\ lastEvent = "handleSearch" =>
                /\ loading
                /\ Len(inflight) = 1
                /\ inflight[1].targetLatLng = defaultKottayamCoords

C5_Witness ==
    /\ geolocation = "failed"
    /\ lastEvent = "handleSearch"
    /\ error = Null
    /\ Len(inflight) = 1

\* C6: without a geolocation capability the mount effect itself stores the
\* city-centre coordinate, marks it not determined and sets the
\* capability-absent message; no geolocation callback ever runs and the mode
\* is city centre throughout.
C6_NoGeolocation ==
    geolocation = "unsupported" =>
        /\ searchContext = "kottayam"
        /\ lastEvent \notin {"geolocationSuccess", "geolocationError"}
        /\ mounted => /\ userLocation = Some(defaultKottayamCoords)
                      /\ ~actualUserLocationDetermined
        /\ lastEvent = "mount" => error = Some(GeoUnsupportedMessage)

C6_Witness ==
    /\ geolocation = "unsupported"
    /\ lastEvent = "mount"
    /\ error = Some(GeoUnsupportedMessage)

\* C7: a search whose getPlaceInfo call throws ends with the one generic
\* message in the banner, whatever the API error was, with no summary and no
\* urls, loading false, nothing pending and exactly one API call made.
C7_ApiFailure ==
    lastEvent = "searchFailed" =>
        /\ error = Some("Error fetching data for " \o LocationDescription
                        \o ": Failed to fetch information. Please check your network and try again.")
        /\ generalSummary = Null
        /\ responseUrls = <<>>
        /\ ~loading
        /\ inflight = <<>>
        /\ apiCalls = 1

C7_Witness ==
    /\ lastEvent = "searchFailed"
    /\ searchContext = "currentLocation"
    /\ error # Null

\* C8: for a response with a text body and no grounding chunks (candidates,
\* metadata or chunk list missing, or the chunk list empty) getPlaceInfo returns
\* the trimmed text, no urls and no places, and does not throw.
C8_NoGroundingChunks ==
    (/\ result # Null
     /\ response[1].ok
     /\ response[1].response.text # Null
     /\ LET candidates == response[1].response.candidates
        IN  \/ candidates = <<>>
            \/ candidates[1].groundingMetadata = Null
            \/ candidates[1].groundingMetadata[1].groundingChunks \in {Null, Some(<<>>)})
    => /\ result[1].ok
       /\ IsTrimOf(result[1].value.summary, response[1].response.text[1])
       /\ result[1].value.urls = <<>>
       /\ result[1].value.places = <<>>

C8_Witness ==
    /\ result # Null
    /\ result[1].ok
    /\ response[1].response.candidates = <<[groundingMetadata |-> Some([groundingChunks |-> Some(<<>>)])]>>
    /\ result[1].value.summary = "## Places\n* Cafe One"

C10_CategoryClause ==
    inflight # <<>> =>
        IF filterCategory # "all"
        THEN /\ Includes(ToLowerCase(inflight[1].query),
                         ToLowerCase(FilterLabel(filterCategory)[1]))
             /\ ~Includes(inflight[1].query, GenericPhrase)
        ELSE Includes(inflight[1].query,
                      "Include various types of places such as companies, shops, restaurants, attractions, and services.")

\* C10 as amended: for every filter but 'all' the query contains the filter's
\* label, case-insensitively, and contains the words of the generic clause only
\* where the user's own free text has them; for 'all' it contains the generic
\* clause.
C10_CategoryClauseAmended ==
    inflight # <<>> =>
        IF filterCategory # "all"
        THEN /\ Includes(ToLowerCase(inflight[1].query),
                         ToLowerCase(FilterLabel(filterCategory)[1]))
             /\ Includes(inflight[1].query, GenericPhrase) => Includes(prompt, GenericPhrase)
        ELSE Includes(inflight[1].query,
                      "Include various types of places such as companies, shops, restaurants, attractions, and services.")

C10_Witness ==
    /\ inflight # <<>>
    /\ filterCategory = "restaurants"
    /\ prompt = "various types of places"
    /\ Includes(inflight[1].query, "\"restaurants\" category")

\* s ends with t
EndsWith(s, t) ==
    /\ Len(t) <= Len(s)
    /\ SubSeq(s, Len(s) - Len(t) + 1, Len(s)) = t

\* C11: a pending request carries what the search context selects: in
\* city-centre mode the default coordinate and a query ending with the
\* 'Kottayam city' clause; in current-location mode the coordinate the
\* geolocation success callback stored (geolocation did not fail) and a query
\* ending with the 'this area near my current location' clause.
C11_ContextSelectsTarget ==
    \A i \in 1..Len(inflight) :
        IF searchContext = "kottayam"
        THEN /\ inflight[i].targetLatLng = [latitude |-> 95916, longitude |-> 765050]
             /\ EndsWith(inflight[i].query, " Provide details for places in Kottayam city.")
        ELSE /\ geolocation = "success"
             /\ actualUserLocationDetermined
             /\ userLocation = Some(inflight[i].targetLatLng)
             /\ inflight[i].targetLatLng \in DevicePositions
             /\ EndsWith(inflight[i].query,
                         " Provide details for places in this area near my current location.")

C11_Witness ==
    /\ Len(inflight) = 1
    /\ searchContext = "currentLocation"
    /\ inflight[1].targetLatLng = [latitude |-> 84875, longitude |-> 769525]
    /\ lastEvent = "handleSearch"

\* C12: current-location mode implies a coordinate determined by a geolocation
\* success; the determined flag never goes back from true to false; handleSearch
\* never takes a refusal branch, every call of it starts a request.
C12_CurrentLocationDetermined ==
    /\ [](/\ searchContext = "currentLocation" =>
                /\ actualUserLocationDetermined
                /\ geolocation = "success"
                /\ userLocation # Null
          /\ error \notin {Some(LocationUndeterminedMessage), Some(NoTargetMessage)}
          /\ lastEvent = "handleSearch" => loading /\ Len(inflight) = 1)
    /\ [][/\ actualUserLocationDetermined => actualUserLocationDetermined'
          /\ (searchContext # "currentLocation" /\ searchContext' = "currentLocation")
                => geolocation = "success"]_vars

C12_Witness ==
    /\ searchContext = "currentLocation"
    /\ actualUserLocationDetermined
    /\ lastEvent = "handleSearch"
    /\ loading

\* C13 as claimed: while the result of a successful search is stored and no
\* request is pending, the error banner is empty.
C13_NoErrorAfterSuccess ==
    (generalSummary # Null /\ ~loading) => error = Null

\* C13 as amended: while the result of a successful search is stored and no
\* request is pending, the banner is empty or shows the message of the
\* geolocation error callback, which then has run; it never shows a fetch,
\* refusal or capability-absent message.
C13_OnlyGeolocationErrorAfterSuccess ==
    (generalSummary # Null /\ ~loading) =>
        \/ error = Null
        \/ /\ geolocation = "failed"
           /\ \E code \in GeoErrorCodes : error = Some(GeoErrorMessage(code))

C13_Witness ==
    /\ generalSummary # Null
    /\ ~loading
    /\ lastEvent = "searchDone"
    /\ geolocation = "failed"
    /\ error # Null

\* C14: a step that sets loading clears the summary and the urls and leaves one
\* request pending; loading is true exactly while a request is pending; loading
\* falls only when the request settles, by success or by failure; with the
\* request settling, loading is eventually false again, and then the search
\* button is enabled.
C14_LoadingEnds ==
    /\ [](/\ loading <=> inflight # <<>>
          /\ (mounted /\ ~loading) => ~SearchButtonDisabled)
    /\ [][/\ (~loading /\ loading') =>
                /\ generalSummary' = Null
                /\ responseUrls' = <<>>
                /\ Len(inflight') = 1
          /\ (loading /\ ~loading') =>
                /\ lastEvent' \in {"searchDone", "searchFailed"}
                /\ inflight' = <<>>]_vars
    /\ loading ~> ~loading

C14_Witness ==
    /\ ~loading
    /\ lastEvent = "searchFailed"
    /\ inflight = <<>>
    /\ ~SearchButtonDisabled

====
